---- MODULE Spec2Model ----
\* A model of serve.py, the Financial Atlas local development server:
\*   - the Change Notifier (FileChangeHandler, debounced per path),
\*   - the Server Orchestrator (main: validate, watch, bind, browser timer,
\*     serve, teardown),
\*   - the Request Handler (CORSHTTPRequestHandler, CORS / no-cache headers).
\* Each part has its own specification over the shared variables.
EXTENDS Integers, Sequences, FiniteSets, TLC

VARIABLES
  \* ---- Change Notifier ----
  wall,           \* reading of time.time(), in ticks
  last_modified,  \* FileChangeHandler.last_modified: path -> time of last delivery
  callbackLog,    \* the calls of self.callback, in order: [path, at]
  event,          \* the event dispatched last, and whether the callback ran
  nEvents,        \* number of events dispatched so far
  \* ---- Server Orchestrator ----
  pc,             \* position of the main thread
  args,           \* the parsed command line
  env,            \* the machine the script runs on
  observer,       \* main's local `observer`: "None" or "Observer"
  observerState,  \* the watcher thread: not_started, running, joined
  bindAttempted,  \* TCPServer((host, port), handler) was called
  listening,      \* the listener socket is bound and open
  bindError,      \* how the bind ended: none, in_use, other
  timer,          \* the browser-launch Timer thread: none, waiting, fired
  timerAt,        \* monotonic time at which the Timer was started
  timerCount,     \* number of Timers started
  caught,         \* the except clause that ended the try block, or "none"
  pendingExit,    \* exit status carried through the finally block
  exitCode,       \* exit status of the process, -1 while it runs
  mono,           \* monotonic time, in ticks
  \* ---- Request Handler ----
  responses,      \* the responses written to clients, in order
  \* ---- shared ----
  console         \* what was printed, in order

watchVars == <<wall, last_modified, callbackLog, event, nEvents>>
mainVars == <<pc, args, env, observer, observerState, bindAttempted, listening,
              bindError, timer, timerAt, timerCount, caught, pendingExit,
              exitCode, mono>>
httpVars == <<responses>>
vars == <<watchVars, mainVars, httpVars, console>>

\* ------------------------------------------------------------------ bounds
TicksPerSecond == 2    \* resolution of the modelled clocks
MaxWall == 6           \* largest reading of the wall clock, in ticks
MaxEvents == 3         \* filesystem events dispatched in one run
MaxMono == 3           \* largest reading of the monotonic clock, in ticks
MaxRequests == 2       \* HTTP requests handled in one run

\* ------------------------------------------------------- program constants
DebounceSeconds == 1   \* `now - self.last_modified[...] > 1`
TimerSeconds == 1      \* threading.Timer(1, ...)
AddrInUseErrno == 48   \* `if e.errno == 48`
DefaultPort == 8000    \* --port default

\* ------------------------------------------------------------ text helpers
\* Paths are sequences of characters.
EndsWith(s, suffix) ==
  /\ Len(suffix) <= Len(s)
  /\ SubSeq(s, Len(s) - Len(suffix) + 1, Len(s)) = suffix

DotHtml == <<".", "h", "t", "m", "l">>
DotCss == <<".", "c", "s", "s">>
DotJs == <<".", "j", "s">>

\* event.src_path.endswith(('.html', '.css', '.js'))
IsWatchedMutAll(path) == TRUE

IsWatched(path) ==
  \/ EndsWith(path, DotHtml)
  \/ EndsWith(path, DotCss)
  \/ EndsWith(path, DotJs)

\* os.path.basename: what follows the last "/"
RECURSIVE basename(_)
basename(path) ==
  IF \E i \in 1..Len(path) : path[i] = "/"
    THEN basename(Tail(path))
    ELSE path

\* The paths the observer reports.
Paths ==
  { <<".", "/", "a", ".", "j", "s">>,
    <<".", "/", "a", ".", "c", "s", "s">>,
    <<".", "/", "i", ".", "h", "t", "m", "l">>,
    <<".", "/", "a", ".", "j", "s", "x">>,
    <<".", "/", "j", "s">> }

EventKinds == {"modified", "created", "deleted", "moved"}

Events == [kind : EventKinds, is_directory : BOOLEAN, src_path : Paths]

NoEvent == [kind |-> "none", is_directory |-> FALSE, src_path |-> <<>>,
            delivered |-> FALSE]

\* ---------------------------------------------------------------------
\* Change Notifier
\* ---------------------------------------------------------------------
Window == DebounceSeconds * TicksPerSecond

\* event.src_path not in self.last_modified
\*   or now - self.last_modified[event.src_path] > 1
ShouldDeliverMutGe(lm, path, now) ==
  path \notin DOMAIN lm \/ now - lm[path] >= Window

ShouldDeliverMutOnce(lm, path, now) ==
  path \notin DOMAIN lm

ShouldDeliver(lm, path, now) ==
  path \notin DOMAIN lm \/ now - lm[path] > Window

\* on_file_changed(file_path): two lines on the console
on_file_changed(out, file_path) ==
  out \o << [msg |-> "file_changed", arg |-> basename(file_path)],
            [msg |-> "refresh_hint", arg |-> <<>>] >>

\* FileChangeHandler.__init__
HandlerInit ==
  /\ last_modified = <<>>
  /\ callbackLog = <<>>

\* FileChangeHandler.on_modified(event), with now = time.time() = wall
on_modified(ev) ==
  IF ev.is_directory
    THEN UNCHANGED <<last_modified, callbackLog, console>>
    ELSE IF IsWatched(ev.src_path) /\ ShouldDeliver(last_modified, ev.src_path, wall)
      THEN /\ last_modified' =
                [p \in DOMAIN last_modified \cup {ev.src_path} |->
                   IF p = ev.src_path THEN wall ELSE last_modified[p]]
           /\ callbackLog' = Append(callbackLog, [path |-> ev.src_path, at |-> wall])
           /\ console' = on_file_changed(console, ev.src_path)
      ELSE UNCHANGED <<last_modified, callbackLog, console>>

\* The observer thread hands one event to the handler. FileChangeHandler
\* overrides on_modified only: every other kind of event reaches the
\* inherited handlers of FileSystemEventHandler, which do nothing.
Dispatch ==
  /\ nEvents < MaxEvents
  /\ \E ev \in Events :
       /\ IF ev.kind = "modified"
            THEN on_modified(ev)
            ELSE UNCHANGED <<last_modified, callbackLog, console>>
       /\ event' = [kind |-> ev.kind, is_directory |-> ev.is_directory,
                    src_path |-> ev.src_path,
                    delivered |-> callbackLog' # callbackLog]
       /\ nEvents' = nEvents + 1
  /\ UNCHANGED <<wall, mainVars, httpVars>>

\* Wall-clock time passes.
WallTick ==
  /\ wall < MaxWall
  /\ wall' = wall + 1
  /\ UNCHANGED <<last_modified, callbackLog, event, nEvents, mainVars, httpVars, console>>

\* The wall clock is set back (time.time() is not monotonic).
WallSetBack ==
  /\ wall > 0
  /\ \E t \in 0..(wall - 1) : wall' = t
  /\ UNCHANGED <<last_modified, callbackLog, event, nEvents, mainVars, httpVars, console>>

\* Values of the variables a specification does not use.
MainIdle ==
  /\ pc = "idle"
  /\ args = [port |-> DefaultPort, no_browser |-> FALSE, no_watch |-> FALSE]
  /\ env = [watchdogInstalled |-> TRUE, indexExists |-> TRUE, platform |-> "darwin"]
  /\ observer = "None"
  /\ observerState = "not_started"
  /\ bindAttempted = FALSE
  /\ listening = FALSE
  /\ bindError = "none"
  /\ timer = "none"
  /\ timerAt = 0
  /\ timerCount = 0
  /\ caught = "none"
  /\ pendingExit = 0
  /\ exitCode = -1
  /\ mono = 0

HttpIdle == responses = <<>>

WatchIdle ==
  /\ wall = 0
  /\ HandlerInit
  /\ event = NoEvent
  /\ nEvents = 0

\* The Change Notifier: the handler as start_file_watcher constructs it,
\* receiving events while the wall clock moves.
InitWatch ==
  /\ wall = 0
  /\ HandlerInit
  /\ event = NoEvent
  /\ nEvents = 0
  /\ console = <<>>
  /\ MainIdle
  /\ HttpIdle

NextWatch == Dispatch \/ WallTick \/ WallSetBack

SpecWatch == InitWatch /\ [][NextWatch]_vars

\* ---------------------------------------------------------------------
\* Server Orchestrator
\* ---------------------------------------------------------------------
Ports == {DefaultPort, 3000}

\* parser.parse_args(): the options main reads
ParsedArgs == [port : Ports, no_browser : BOOLEAN, no_watch : BOOLEAN]

Platforms == {"darwin", "linux", "win32"}

\* The machine: is the watchdog package importable, does index.html exist
\* in the script's directory, which operating system runs the script.
Environments ==
  [watchdogInstalled : BOOLEAN, indexExists : BOOLEAN, platform : Platforms]

Say(out, msg, arg) == Append(out, [msg |-> msg, arg |-> arg])

\* errno of the OSError that TCPServer's bind raises: "address already in
\* use" has the number of the platform, anything else is EACCES here.
BindErrno(platform, result) ==
  IF result = "in_use"
    THEN CASE platform = "darwin" -> 48
           [] platform = "linux" -> 98
           [] platform = "win32" -> 10048
    ELSE 13

\* check_dependencies(): is every required file there
check_dependenciesMutTrue(e) == TRUE

check_dependencies(e) == e.indexExists

\* `from watchdog... import ...` at the top of the module: without the
\* package the import raises before main() is ever called.
LoadModule ==
  /\ pc = "import"
  /\ IF env.watchdogInstalled
       THEN /\ pc' = "validate"
            /\ UNCHANGED <<exitCode, console>>
       ELSE /\ console' = Say(console, "traceback", "ModuleNotFoundError")
            /\ exitCode' = 1
            /\ pc' = "exited"
  /\ UNCHANGED <<args, env, observer, observerState, bindAttempted, listening,
                 bindError, timer, timerAt, timerCount, caught, pendingExit,
                 mono, watchVars, httpVars>>

\* if not check_dependencies(): sys.exit(1)
Validate ==
  /\ pc = "validate"
  /\ IF check_dependencies(env)
       THEN /\ pc' = "watch_start"
            /\ UNCHANGED <<exitCode, console>>
       ELSE /\ console' = Say(console, "missing_required_files", "index.html")
            /\ exitCode' = 1
            /\ pc' = "exited"
  /\ UNCHANGED <<args, env, observer, observerState, bindAttempted, listening,
                 bindError, timer, timerAt, timerCount, caught, pendingExit,
                 mono, watchVars, httpVars>>

\* observer = None; if not args.no_watch: try start_file_watcher(...)
WatchStart ==
  /\ pc = "watch_start"
  /\ IF args.no_watch
       THEN UNCHANGED <<observer, observerState, console>>
       ELSE \E raised \in {"none", "ImportError", "Exception"} :
              CASE raised = "none" ->
                     /\ observer' = "Observer"
                     /\ observerState' = "running"
                     /\ console' = Say(console, "watcher_started", <<>>)
                [] raised = "ImportError" ->
                     /\ console' = Say(console, "warn_watch_unavailable", <<>>)
                     /\ UNCHANGED <<observer, observerState>>
                [] raised = "Exception" ->
                     /\ console' = Say(console, "warn_watch_failed", <<>>)
                     /\ UNCHANGED <<observer, observerState>>
  /\ pc' = "bind"
  /\ UNCHANGED <<args, env, bindAttempted, listening, bindError, timer, timerAt,
                 timerCount, caught, pendingExit, exitCode, mono, watchVars,
                 httpVars>>

\* except OSError as e: the message chosen by e.errno, then sys.exit(1)
OSErrorHandler(out, errno) ==
  IF errno = AddrInUseErrno
    THEN Say(Say(out, "port_in_use", args.port), "try_port", args.port + 1)
    ELSE Say(out, "server_error", errno)

\* with socketserver.TCPServer((args.host, args.port), handler) as httpd
Bind ==
  /\ pc = "bind"
  /\ bindAttempted' = TRUE
  /\ \E result \in {"ok", "in_use", "other"} :
       /\ bindError' = IF result = "ok" THEN "none" ELSE result
       /\ IF result = "ok"
            THEN /\ listening' = TRUE
                 /\ pc' = "banner"
                 /\ UNCHANGED <<caught, pendingExit, console>>
            ELSE /\ console' = OSErrorHandler(console, BindErrno(env.platform, result))
                 /\ caught' = "OSError"
                 /\ pendingExit' = 1
                 /\ pc' = "finally"
                 /\ UNCHANGED listening
  /\ UNCHANGED <<args, env, observer, observerState, timer, timerAt, timerCount,
                 exitCode, mono, watchVars, httpVars>>

\* The banner, and `if not args.no_browser: threading.Timer(1, ...).start()`
AnnounceMutAlwaysBrowser ==
  /\ pc = "banner"
  /\ console' = Say(Say(Say(console, "banner", args.port),
                        "opening_browser", args.port), "server_running", args.port)
  /\ timer' = "waiting"
  /\ timerAt' = mono
  /\ timerCount' = timerCount + 1
  /\ pc' = "serve"
  /\ UNCHANGED <<args, env, observer, observerState, bindAttempted, listening,
                 bindError, caught, pendingExit, exitCode, mono, watchVars,
                 httpVars>>

Announce ==
  /\ pc = "banner"
  /\ IF args.no_browser
       THEN /\ console' = Say(Say(console, "banner", args.port),
                              "server_running", args.port)
            /\ UNCHANGED <<timer, timerAt, timerCount>>
       ELSE /\ console' = Say(Say(Say(console, "banner", args.port),
                                  "opening_browser", args.port),
                              "server_running", args.port)
            /\ timer' = "waiting"
            /\ timerAt' = mono
            /\ timerCount' = timerCount + 1
  /\ pc' = "serve"
  /\ UNCHANGED <<args, env, observer, observerState, bindAttempted, listening,
                 bindError, caught, pendingExit, exitCode, mono, watchVars,
                 httpVars>>

\* The statements of the try block: an interrupt or an error raised at any
\* of them reaches the except clauses of main.
InTry == pc \in {"bind", "banner", "serve"}

\* except KeyboardInterrupt: print, fall through to finally
InterruptMutExit1 ==
  /\ InTry
  /\ console' = Say(console, "stopped_by_user", <<>>)
  /\ caught' = "KeyboardInterrupt"
  /\ pendingExit' = 1
  /\ listening' = FALSE
  /\ pc' = "finally"
  /\ UNCHANGED <<args, env, observer, observerState, bindAttempted, bindError,
                 timer, timerAt, timerCount, exitCode, mono, watchVars, httpVars>>

Interrupt ==
  /\ InTry
  /\ console' = Say(console, "stopped_by_user", <<>>)
  /\ caught' = "KeyboardInterrupt"
  /\ pendingExit' = 0
  /\ listening' = FALSE
  /\ pc' = "finally"
  /\ UNCHANGED <<args, env, observer, observerState, bindAttempted, bindError,
                 timer, timerAt, timerCount, exitCode, mono, watchVars, httpVars>>

\* An error raised while the server is set up or serving: an OSError goes
\* to `except OSError`, anything else to `except Exception`; both sys.exit(1).
RuntimeError ==
  /\ pc \in {"banner", "serve"}
  /\ \E kind \in {"OSError", "Exception"} :
       /\ caught' = kind
       /\ console' = IF kind = "OSError"
                       THEN OSErrorHandler(console, BindErrno(env.platform, "other"))
                       ELSE Say(console, "unexpected_error", <<>>)
  /\ pendingExit' = 1
  /\ listening' = FALSE
  /\ pc' = "finally"
  /\ UNCHANGED <<args, env, observer, observerState, bindAttempted, bindError,
                 timer, timerAt, timerCount, exitCode, mono, watchVars, httpVars>>

\* finally: if observer: observer.stop(); observer.join()
\* and then the process ends with the status the try statement left.
FinallyMutOnlyOnReturn ==
  /\ pc = "finally"
  /\ IF observer # "None" /\ pendingExit = 0
       THEN observerState' = "joined"
       ELSE UNCHANGED observerState
  /\ exitCode' = pendingExit
  /\ pc' = "exited"
  /\ UNCHANGED <<args, env, observer, bindAttempted, listening, bindError, timer,
                 timerAt, timerCount, caught, pendingExit, mono, watchVars,
                 httpVars, console>>

Finally ==
  /\ pc = "finally"
  /\ IF observer # "None"
       THEN observerState' = "joined"
       ELSE UNCHANGED observerState
  /\ exitCode' = pendingExit
  /\ pc' = "exited"
  /\ UNCHANGED <<args, env, observer, bindAttempted, listening, bindError, timer,
                 timerAt, timerCount, caught, pendingExit, mono, watchVars,
                 httpVars, console>>

\* The Timer thread: after its interval it calls webbrowser.open(url).
TimerFire ==
  /\ timer = "waiting"
  /\ mono - timerAt >= TimerSeconds * TicksPerSecond
  /\ timer' = "fired"
  /\ UNCHANGED <<pc, args, env, observer, observerState, bindAttempted, listening,
                 bindError, timerAt, timerCount, caught, pendingExit, exitCode,
                 mono, watchVars, httpVars, console>>

\* Time passes.
MonoTick ==
  /\ mono < MaxMono
  /\ mono' = mono + 1
  /\ UNCHANGED <<pc, args, env, observer, observerState, bindAttempted, listening,
                 bindError, timer, timerAt, timerCount, caught, pendingExit,
                 exitCode, watchVars, httpVars, console>>

\* The process as the interpreter starts it, on any machine and command line.
InitMain ==
  /\ pc = "import"
  /\ args \in ParsedArgs
  /\ env \in Environments
  /\ observer = "None"
  /\ observerState = "not_started"
  /\ bindAttempted = FALSE
  /\ listening = FALSE
  /\ bindError = "none"
  /\ timer = "none"
  /\ timerAt = 0
  /\ timerCount = 0
  /\ caught = "none"
  /\ pendingExit = 0
  /\ exitCode = -1
  /\ mono = 0
  /\ console = <<>>
  /\ WatchIdle
  /\ HttpIdle

NextMain ==
  \/ LoadModule
  \/ Validate
  \/ WatchStart
  \/ Bind
  \/ Announce
  \/ Interrupt
  \/ RuntimeError
  \/ Finally
  \/ TimerFire
  \/ MonoTick

SpecMain == InitMain /\ [][NextMain]_vars

\* ---------------------------------------------------------------------
\* Request Handler
\* ---------------------------------------------------------------------
Methods == {"GET", "HEAD", "OPTIONS", "POST", "DELETE"}

\* Request targets: a file that exists, the directory (which holds
\* index.html) and a path that does not exist.
Targets == {"/index.html", "/", "/missing.js"}

Requests == [method : Methods, target : Targets]

\* A response under construction: the status line, the buffered headers,
\* whether a body follows, and whether the headers were flushed to the client.
NewResponse == [status |-> 0, headers |-> <<>>, body |-> FALSE, flushed |-> FALSE]

\* BaseHTTPRequestHandler.send_header: buffered until the headers are
\* flushed, and not part of what the client got once they were.
send_header(r, name, value) ==
  IF r.flushed THEN r ELSE [r EXCEPT !.headers = Append(@, <<name, value>>)]

\* BaseHTTPRequestHandler.send_response: status line, Server and Date
send_response(r, code) ==
  send_header(send_header([r EXCEPT !.status = code], "Server", "SimpleHTTP"),
              "Date", "now")

\* BaseHTTPRequestHandler.end_headers, reached through super()
base_end_headers(r) == [r EXCEPT !.flushed = TRUE]

\* CORSHTTPRequestHandler.end_headers
end_headersMutFlushFirst(r) ==
  send_header(base_end_headers(r), "Access-Control-Allow-Origin", "*")

end_headers(r) ==
  base_end_headers(
    send_header(
      send_header(
        send_header(
          send_header(
            send_header(
              send_header(r, "Access-Control-Allow-Origin", "*"),
              "Access-Control-Allow-Methods", "GET, POST, OPTIONS"),
            "Access-Control-Allow-Headers", "Content-Type"),
          "Cache-Control", "no-cache, no-store, must-revalidate"),
        "Pragma", "no-cache"),
      "Expires", "0"))

\* CORSHTTPRequestHandler.do_OPTIONS
do_OPTIONS(r) == end_headers(send_response(r, 200))

\* BaseHTTPRequestHandler.send_error, inherited: an error page, whose body
\* is left out for HEAD
send_error(r, code, method) ==
  LET h == send_header(
             send_header(
               send_header(send_response(r, code), "Connection", "close"),
               "Content-Type", "text/html;charset=utf-8"),
             "Content-Length", "n")
  IN  [end_headers(h) EXCEPT !.body = (method # "HEAD")]

\* SimpleHTTPRequestHandler.do_GET and do_HEAD, inherited: the file, the
\* directory's index.html, or 404
do_GET_or_HEAD(r, req) ==
  IF req.target = "/missing.js"
    THEN send_error(r, 404, req.method)
    ELSE LET h == send_header(
                    send_header(
                      send_header(send_response(r, 200), "Content-type", "text/html"),
                      "Content-Length", "n"),
                    "Last-Modified", "then")
         IN  [end_headers(h) EXCEPT !.body = (req.method = "GET")]

\* BaseHTTPRequestHandler.handle_one_request, inherited: do_<METHOD> if the
\* handler class has it, 501 otherwise
handle_one_request(req) ==
  CASE req.method = "OPTIONS" -> do_OPTIONS(NewResponse)
    [] req.method \in {"GET", "HEAD"} -> do_GET_or_HEAD(NewResponse, req)
    [] OTHER -> send_error(NewResponse, 501, req.method)

\* CORSHTTPRequestHandler.log_message: one timestamped line per request
log_message(out, req, code) == Say(out, "http_log", <<req.method, req.target, code>>)

\* The server accepts a request and the handler answers it.
HandleRequest ==
  /\ Len(responses) < MaxRequests
  /\ \E req \in Requests :
       LET r == handle_one_request(req)
       IN  /\ responses' = Append(responses, [request |-> req, response |-> r])
           /\ console' = log_message(console, req, r.status)
  /\ UNCHANGED <<watchVars, mainVars>>

\* The handler class behind a listening server.
InitHttp ==
  /\ responses = <<>>
  /\ console = <<>>
  /\ WatchIdle
  /\ MainIdle

NextHttp == HandleRequest

SpecHttp == InitHttp /\ [][NextHttp]_vars

\* ------------------------------------------------ claims: Change Notifier
\* The extension filter, as the specification words it.
WatchedExt(path) == \E suffix \in {DotHtml, DotCss, DotJs} : EndsWith(path, suffix)

\* The callbacks delivered for one path, oldest first.
DeliveriesOf(path) == SelectSeq(callbackLog, LAMBDA d : d.path = path)

\* event is a modification of a file with a watched extension
IsQualifying(ev) ==
  /\ ev.kind = "modified"
  /\ ~ev.is_directory
  /\ WatchedExt(ev.src_path)

\* C1: any two callback deliveries for the same path are more than one
\* second apart on the wall clock, whatever events were handled; so two
\* modifications of a path within one second give at most one callback.
C1_DeliveriesMoreThanOneSecondApart ==
  \A i, j \in 1..Len(callbackLog) :
    (i < j /\ callbackLog[i].path = callbackLog[j].path)
      => callbackLog[j].at - callbackLog[i].at > Window

\* A second modification of a path arrived within a second of the delivery
\* for that path and was suppressed: one callback for two modifications.
C1_Witness ==
  /\ nEvents = 2
  /\ IsQualifying(event)
  /\ ~event.delivered
  /\ event.src_path \in DOMAIN last_modified
  /\ Len(DeliveriesOf(event.src_path)) = 1

\* C2: a modification of a watched file is delivered whenever it is the
\* first for its path or arrives more than one second after the last
\* delivery for that path, whatever happened in between.
C2_QualifyingEventDelivered ==
  [][ ( /\ nEvents' = nEvents + 1
        /\ IsQualifying(event')
        /\ LET prior == DeliveriesOf(event'.src_path)
           IN  prior = <<>> \/ wall - prior[Len(prior)].at > Window )
      => callbackLog' = Append(callbackLog,
                               [path |-> event'.src_path, at |-> wall])
    ]_vars

\* A path was modified, an event was suppressed or ignored, and the path was
\* modified again more than a second after the first delivery: two callbacks.
C2_Witness ==
  /\ nEvents = 3
  /\ Len(callbackLog) = 2
  /\ callbackLog[1].path = callbackLog[2].path
  /\ callbackLog[2].at - callbackLog[1].at > Window
  /\ event.src_path = callbackLog[2].path
  /\ event.delivered

\* C3: an event that is not a modification of a file ending in .html, .css
\* or .js (another extension, a directory, a creation, deletion or rename)
\* never invokes the callback and never changes the debounce table.
C3_OtherEventsIgnored ==
  [][ (nEvents' = nEvents + 1 /\ ~IsQualifying(event'))
      => UNCHANGED <<last_modified, callbackLog>> ]_vars

\* Several events, the last a modification of a file with another
\* extension, and no callback at all.
C3_Witness ==
  /\ nEvents >= 2
  /\ event.kind = "modified"
  /\ ~event.is_directory
  /\ ~WatchedExt(event.src_path)
  /\ callbackLog = <<>>
  /\ last_modified = <<>>

\* ---------------------------------------------- claims: Server Orchestrator
Printed(msg, arg) == \E i \in DOMAIN console : console[i] = [msg |-> msg, arg |-> arg]

PrintedMsg(msg) == \E i \in DOMAIN console : console[i].msg = msg

\* C4: a launch on a port that is already bound prints the suggestion
\* "port + 1" and exits with code 1.
C4_PortInUseSuggestsNextPort ==
  (pc = "exited" /\ bindError = "in_use")
    => (exitCode = 1 /\ Printed("try_port", args.port + 1))

\* C5: when the watcher cannot be initialised (watchdog missing, or the
\* observer fails to start) a warning is logged and the listener is still
\* bound: the failure never ends the process.
C5_WatcherFailureIsNotFatal ==
  (/\ pc = "exited"
   /\ ~args.no_watch
   /\ env.indexExists
   /\ (~env.watchdogInstalled \/ observerState = "not_started"))
    => (/\ bindAttempted
        /\ PrintedMsg("warn_watch_unavailable") \/ PrintedMsg("warn_watch_failed"))

\* C6: without index.html the run ends with code 1 before any network
\* resource is opened: no bind is attempted, no watcher and no browser
\* timer is started.
C6_MissingIndexExitsBeforeAnyResource ==
  ~env.indexExists =>
    /\ pc \in {"import", "validate", "exited"}
    /\ ~bindAttempted
    /\ ~listening
    /\ observer = "None"
    /\ observerState = "not_started"
    /\ timer = "none"
    /\ timerCount = 0
    /\ (pc = "exited" => exitCode = 1)

\* main() ran, found index.html missing and exited with code 1.
C6_Witness ==
  /\ ~env.indexExists
  /\ env.watchdogInstalled
  /\ pc = "exited"
  /\ exitCode = 1
  /\ Printed("missing_required_files", "index.html")

\* C7: whenever the watcher was started, it has been stopped and joined
\* when the process exits, whichever except clause ended the run.
C7_WatcherJoinedBeforeExit ==
  pc = "exited" => observerState \in {"not_started", "joined"}

\* The watcher ran, the port was in use, and the watcher was joined before
\* the exit with code 1.
C7_Witness ==
  /\ pc = "exited"
  /\ observer = "Observer"
  /\ observerState = "joined"
  /\ caught = "OSError"
  /\ bindError = "in_use"
  /\ exitCode = 1

\* C9: an interrupt is normal termination, teardown and exit code 0; a
\* missing entry file, a port in use or any other error exits with code 1.
C9_ExitCodes ==
  pc = "exited" =>
    /\ caught = "KeyboardInterrupt" =>
         (exitCode = 0 /\ ~listening /\ observerState # "running")
    /\ caught # "KeyboardInterrupt" => exitCode = 1

\* The server was serving with the watcher running, was interrupted, and
\* exited with code 0 after the teardown.
C9_Witness ==
  /\ pc = "exited"
  /\ caught = "KeyboardInterrupt"
  /\ PrintedMsg("server_running")
  /\ observerState = "joined"
  /\ exitCode = 0

\* C10: the browser launch is scheduled at most once, only without
\* --no-browser and only after a successful bind, and the browser opens on
\* the timer thread no sooner than one second after it was scheduled.
C10_BrowserLaunchScheduling ==
  /\ timerCount <= 1
  /\ (timer # "none") <=> (timerCount = 1)
  /\ timerCount = 1 =>
       /\ ~args.no_browser
       /\ env.indexExists
       /\ bindAttempted
       /\ bindError = "none"
  /\ timer = "fired" => mono - timerAt >= TimerSeconds * TicksPerSecond

\* The main thread is in serve_forever while the timer has not fired yet.
C10_Witness ==
  /\ pc = "serve"
  /\ timer = "waiting"
  /\ mono = timerAt
  /\ listening

\* ------------------------------------------------- claims: Request Handler
FixedHeaders ==
  { <<"Access-Control-Allow-Origin", "*">>,
    <<"Access-Control-Allow-Methods", "GET, POST, OPTIONS">>,
    <<"Access-Control-Allow-Headers", "Content-Type">>,
    <<"Cache-Control", "no-cache, no-store, must-revalidate">>,
    <<"Pragma", "no-cache">>,
    <<"Expires", "0">> }

HeadersOf(r) == { r.headers[i] : i \in DOMAIN r.headers }

\* C8: every response the handler sends, for any method and path, success
\* or error, carries the fixed CORS and no-cache headers.
C8_EveryResponseHasFixedHeaders ==
  \A i \in DOMAIN responses :
    /\ responses[i].response.flushed
    /\ FixedHeaders \subseteq HeadersOf(responses[i].response)

\* An error response to a missing file and one to an unsupported method
\* were sent.
C8_Witness ==
  /\ Len(responses) = 2
  /\ responses[1].response.status = 404
  /\ responses[2].response.status = 501

====
